---- MODULE Spec2Model ----
(***************************************************************************)
(* Mess portal backend: the vote ledger (mess_routes.py, mess_models.py)   *)
(* and the admin session / token authority (admin_routes.py).              *)
(*                                                                         *)
(* Strings are sequences of one-character strings, so that lower(), the    *)
(* ':' concatenation of the identifier, split(' ') of the Authorization    *)
(* header and len() of a password are computed as the code computes them.  *)
(* A missing JSON field and an empty one take the same branch in the code  *)
(* ("field not in data or not data[field]") and are both the empty string. *)
(* Vote.timestamp and Vote.session_id are write-only columns and are left  *)
(* out of the rows.                                                        *)
(***************************************************************************)
EXTENDS Integers, Sequences, FiniteSets, TLC

VARIABLES votes, vreq, now, admins, sessions, issued, resp, cp,
          complaints, menu_pdfs

vars == <<votes, vreq, now, admins, sessions, issued, resp, cp,
          complaints, menu_pdfs>>
voteVars == <<votes, vreq>>
adminVars == <<now, admins, sessions, issued, resp, cp>>
\* the complaints and menu_pdfs tables
docVars == <<complaints, menu_pdfs>>

----------------------------------------------------------------------------
(* Strings                                                                 *)

EmptyStr == <<>>

\* str.lower() on the characters the inputs use
LowerChar(c) ==
    CASE c = "M" -> "m"
      [] c = "L" -> "l"
      [] c = "C" -> "c"
      [] c = "P" -> "p"
      [] c = "D" -> "d"
      [] c = "F" -> "f"
      [] OTHER -> c

\* a handler that forgets .lower()
Lower_Forgotten(s) == s

Lower(s) == [i \in DOMAIN s |-> LowerChar(s[i])]

\* hashlib.sha256(...).hexdigest(), taken as injective
Sha256(s) == <<"sha256">> \o s

----------------------------------------------------------------------------
(* Request inputs of the vote endpoints                                    *)

Days == {EmptyStr, <<"M">>, <<"m">>}
Meals == {EmptyStr, <<"L">>, <<"l">>}
Dishes == {EmptyStr, <<"x">>, <<"y">>}
Ips == {<<"1">>, <<"2">>}
UserAgents == {<<"u">>}
Workers == {"w1", "w2"}

----------------------------------------------------------------------------
(* Vote ledger                                                             *)

\* an optional argument: None is the empty list, a given string s is <<s>>
None == <<>>
Given(s) == <<s>>

\* create_user_identifier(ip_address, user_agent, additional_data=None);
\* "if additional_data:" is false for None and for the empty string.  The
\* first 32 hex characters of the digest are taken as injective too.
create_user_identifier(ip, ua, additional_data) ==
    LET identifier_data == ip \o <<":">> \o ua
        full == IF additional_data # None /\ additional_data[1] # EmptyStr
                THEN identifier_data \o <<":">> \o additional_data[1]
                ELSE identifier_data
    IN  Sha256(full)

\* arguments given to create_user_identifier on its own: addresses and
\* agents with and without ':', additional data absent, empty and given
IdentIps == {<<"1">>, <<"2">>, <<"1", ":", "u">>}
IdentUserAgents == {<<"u">>, <<"u", ":", "u">>}
IdentExtras == {None, Given(EmptyStr), Given(<<"u">>)}

\* a call of create_user_identifier by worker w
derive(w, ip, ua, additional_data) ==
    /\ vreq' = [vreq EXCEPT ![w] =
          [pc |-> "done", kind |-> "derive", ip |-> ip, ua |-> ua,
           additional_data |-> additional_data,
           user_identifier |-> create_user_identifier(ip, ua, additional_data)]]
    /\ UNCHANGED votes
    /\ UNCHANGED adminVars
    /\ UNCHANGED docVars

\* a lookup that filters on the wrong column
VotesFor_WrongColumn(day, meal, ident) ==
    {v \in votes : v.day = day /\ v.meal = meal /\ v.ip_address = ident}

\* Vote.query.filter_by(day=..., meal=..., user_identifier=...)
VotesFor(day, meal, ident) ==
    {v \in votes : v.day = day /\ v.meal = meal /\ v.user_identifier = ident}

\* the first required field that is missing or empty, or "none"
MissingField(fields) ==
    IF \E i \in DOMAIN fields : fields[i][2] = EmptyStr
    THEN LET i == CHOOSE j \in DOMAIN fields :
                    /\ fields[j][2] = EmptyStr
                    /\ \A k \in DOMAIN fields : fields[k][2] = EmptyStr => j <= k
         IN  fields[i][1]
    ELSE "none"

IdleReq ==
    [pc |-> "idle", kind |-> "none", day |-> EmptyStr, meal |-> EmptyStr,
     dish |-> EmptyStr, ip |-> EmptyStr, ua |-> EmptyStr,
     code |-> "none", field |-> "none", vote_id |-> 0, has_voted |-> FALSE,
     vote_details |-> {}]

\* a worker is free to take a request when it is not inside a handler
Free(w) == vreq[w].pc \in {"idle", "done"}

\* a votes table created without the unique_vote constraint
UniqueVoteOk_NoConstraint(row) == TRUE

\* the UNIQUE(day, meal, user_identifier) constraint, checked at commit
UniqueVoteOk(row) ==
    ~\E v \in votes : /\ v.day = row.day
                       /\ v.meal = row.meal
                       /\ v.user_identifier = row.user_identifier

\* a duplicate check that also filters on the dish
SubmitVoteCheck_PerDish(w, day, meal, dish, ip, ua) ==
    /\ Free(w)
    /\ LET missing == MissingField(<<<<"day", day>>, <<"meal", meal>>, <<"dish", dish>>>>)
           user_identifier == create_user_identifier(ip, ua, None)
           existing_vote == {v \in VotesFor(Lower(day), Lower(meal), user_identifier) :
                                v.dish = dish}
           req == [IdleReq EXCEPT !.kind = "vote"]
       IN  vreq' = [vreq EXCEPT ![w] =
             IF missing # "none"
             THEN [req EXCEPT !.pc = "done", !.code = "MISSING_FIELD", !.field = missing]
             ELSE IF existing_vote # {}
             THEN [req EXCEPT !.pc = "done", !.code = "DUPLICATE_VOTE",
                              !.day = day, !.meal = meal, !.dish = dish,
                              !.ip = ip, !.ua = ua]
             ELSE [req EXCEPT !.pc = "insert",
                              !.day = day, !.meal = meal, !.dish = dish,
                              !.ip = ip, !.ua = ua]]
    /\ UNCHANGED votes
    /\ UNCHANGED adminVars
    /\ UNCHANGED docVars

\* a submit_vote that lets a voter change the vote: the stored vote for the
\* key is deleted and the new one is inserted
SubmitVoteCheck_Replace(w, day, meal, dish, ip, ua) ==
    /\ Free(w)
    /\ LET missing == MissingField(<<<<"day", day>>, <<"meal", meal>>, <<"dish", dish>>>>)
           user_identifier == create_user_identifier(ip, ua, None)
           existing_vote == VotesFor(Lower(day), Lower(meal), user_identifier)
           req == [IdleReq EXCEPT !.kind = "vote"]
       IN  IF missing # "none"
           THEN /\ vreq' = [vreq EXCEPT ![w] =
                      [req EXCEPT !.pc = "done", !.code = "MISSING_FIELD", !.field = missing]]
                /\ UNCHANGED votes
           ELSE /\ vreq' = [vreq EXCEPT ![w] =
                      [req EXCEPT !.pc = "insert",
                                  !.day = day, !.meal = meal, !.dish = dish,
                                  !.ip = ip, !.ua = ua]]
                /\ votes' = votes \ existing_vote
    /\ UNCHANGED adminVars
    /\ UNCHANGED docVars

\* submit_vote up to the duplicate check
SubmitVoteCheck(w, day, meal, dish, ip, ua) ==
    /\ Free(w)
    /\ LET missing == MissingField(<<<<"day", day>>, <<"meal", meal>>, <<"dish", dish>>>>)
           user_identifier == create_user_identifier(ip, ua, None)
           existing_vote == VotesFor(Lower(day), Lower(meal), user_identifier)
           req == [IdleReq EXCEPT !.kind = "vote"]
       IN  vreq' = [vreq EXCEPT ![w] =
             IF missing # "none"
             THEN [req EXCEPT !.pc = "done", !.code = "MISSING_FIELD", !.field = missing]
             ELSE IF existing_vote # {}
             THEN [req EXCEPT !.pc = "done", !.code = "DUPLICATE_VOTE",
                              !.day = day, !.meal = meal, !.dish = dish,
                              !.ip = ip, !.ua = ua]
             ELSE [req EXCEPT !.pc = "insert",
                              !.day = day, !.meal = meal, !.dish = dish,
                              !.ip = ip, !.ua = ua]]
    /\ UNCHANGED votes
    /\ UNCHANGED adminVars
    /\ UNCHANGED docVars

\* submit_vote from the construction of the row to the response
SubmitVoteInsert(w) ==
    /\ vreq[w].pc = "insert"
    /\ LET r == vreq[w]
           vote == [id |-> Cardinality(votes) + 1,
                    day |-> Lower(r.day),
                    meal |-> Lower(r.meal),
                    dish |-> r.dish,
                    user_identifier |-> create_user_identifier(r.ip, r.ua, None),
                    ip_address |-> r.ip]
       IN  IF UniqueVoteOk(vote)
           THEN /\ votes' = votes \cup {vote}
                /\ vreq' = [vreq EXCEPT ![w] =
                      [r EXCEPT !.pc = "done", !.code = "OK", !.vote_id = vote.id]]
           ELSE \* IntegrityError at commit, caught by "except Exception"
                /\ votes' = votes
                /\ vreq' = [vreq EXCEPT ![w] =
                      [r EXCEPT !.pc = "done", !.code = "INTERNAL_ERROR"]]
    /\ UNCHANGED adminVars
    /\ UNCHANGED docVars

\* check_vote_status
CheckVoteStatus(w, day, meal, ip, ua) ==
    /\ Free(w)
    /\ LET missing == MissingField(<<<<"day", day>>, <<"meal", meal>>>>)
           user_identifier == create_user_identifier(ip, ua, None)
           existing_vote == VotesFor(Lower(day), Lower(meal), user_identifier)
           req == [IdleReq EXCEPT !.kind = "check"]
       IN  vreq' = [vreq EXCEPT ![w] =
             IF missing # "none"
             THEN [req EXCEPT !.pc = "done", !.code = "MISSING_FIELD", !.field = missing]
             ELSE [req EXCEPT !.pc = "done", !.code = "OK",
                              !.day = day, !.meal = meal, !.ip = ip, !.ua = ua,
                              !.has_voted = (existing_vote # {}),
                              !.vote_details = existing_vote]]
    /\ UNCHANGED votes
    /\ UNCHANGED adminVars
    /\ UNCHANGED docVars


----------------------------------------------------------------------------
(* Admin session / token authority                                         *)

JWT_SECRET_KEY == "mess_portal_jwt_secret_2024"
JWT_EXPIRATION_HOURS == 1

\* resolution of the clock: ticks per hour, and the last tick the clock reaches
TicksPerHour == 2
MaxClock == 3
\* the clock may move by this much between two reads of one login request
MaxDrift == 1

Hours(h) == h * TicksPerHour

Usernames == {"admin", "ghost"}
DefaultPassword == <<"a", "d", "m", "i", "n", "1", "2", "3">>
Passwords == {EmptyStr, DefaultPassword, <<"n", "e", "w", "p", "w">>,
              <<"n", "e", "w", "p", "w", "d">>}
Salts == {<<"s1">>, <<"s2">>}
\* the salt drawn when main.py created the default admin
BootSalt == <<"s1">>
AdminIps == {<<"9">>}

\* AdminUser.hash_password with the salt that secrets.token_hex produced; the
\* "salt:digest" string is kept as the list of its ':'-separated parts
hash_password(password, salt) == <<salt, Sha256(password \o salt)>>

\* a verify_password without the try/except around the unpacking
verify_password_outcome_Uncaught(admin, password) ==
    IF Len(admin.password_hash) # 2
    THEN "ValueError"
    ELSE LET salt == admin.password_hash[1]
             stored_hash == admin.password_hash[2]
         IN  IF Sha256(password \o salt) = stored_hash THEN "True" ELSE "False"

\* how a call of AdminUser.verify_password ends: the unpacking of
\* password_hash.split(':') raises ValueError unless there are exactly two
\* parts, and the except clause turns that into False
verify_password_outcome(admin, password) ==
    IF Len(admin.password_hash) # 2
    THEN "False"
    ELSE LET salt == admin.password_hash[1]
             stored_hash == admin.password_hash[2]
         IN  IF Sha256(password \o salt) = stored_hash THEN "True" ELSE "False"

\* AdminUser.verify_password
verify_password(admin, password) == verify_password_outcome(admin, password) = "True"

\* passwords given to the password functions, one of them with a ':'
TriedPasswords == Passwords \cup {<<"a", ":", "b">>, <<"n", "e", "w">>}

\* password hashes as a database may hold them: written by hash_password, a
\* digest made with another salt, a string without ':' and one with two ':'
StoredHashes ==
    {hash_password(password, salt) : password \in TriedPasswords, salt \in Salts}
        \cup {<<<<"s2">>, Sha256(DefaultPassword \o <<"s1">>)>>,
              <<Sha256(DefaultPassword \o <<"s1">>)>>,
              <<<<"s1">>, Sha256(DefaultPassword \o <<"s1">>), <<"x">>>>}

\* a call of AdminUser.hash_password whose result is stored for the admin
set_password(a, password, salt) ==
    /\ admins' = [admins EXCEPT ![a].password_hash = hash_password(password, salt)]
    /\ resp' = [op |-> "hash_password", code |-> "OK", password |-> password]
    /\ UNCHANGED <<now, sessions, issued, cp>>
    /\ UNCHANGED voteVars
    /\ UNCHANGED docVars

\* a call of AdminUser.verify_password on the stored hash
check_password(a, password) ==
    /\ resp' = [op |-> "verify_password",
                code |-> verify_password_outcome(admins[a], password),
                password |-> password]
    /\ UNCHANGED <<now, admins, sessions, issued, cp>>
    /\ UNCHANGED voteVars
    /\ UNCHANGED docVars

\* a token that lives one tick longer than JWT_EXPIRATION_HOURS
generate_jwt_token_LongLived(admin_id) ==
    [admin_id |-> admin_id,
     exp |-> now + Hours(JWT_EXPIRATION_HOURS) + 1,
     iat |-> now,
     key |-> JWT_SECRET_KEY]

\* generate_jwt_token: jwt.encode of the payload under the secret key
generate_jwt_token(admin_id) ==
    [admin_id |-> admin_id,
     exp |-> now + Hours(JWT_EXPIRATION_HOURS),
     iat |-> now,
     key |-> JWT_SECRET_KEY]

\* a token that was not signed with the server's key
ForgedToken ==
    [admin_id |-> 1, exp |-> MaxClock + Hours(JWT_EXPIRATION_HOURS) + 1,
     iat |-> 0, key |-> "other"]

NoToken == [admin_id |-> 0, exp |-> 0, iat |-> 0, key |-> "none"]

\* a decode that checks the signature only
verify_jwt_token_NoExpiry(token) ==
    IF token.key # JWT_SECRET_KEY THEN 0 ELSE token.admin_id

\* a decode that refuses the token only at the instant of its exp
verify_jwt_token_ExactInstant(token) ==
    IF token.key # JWT_SECRET_KEY THEN 0
    ELSE IF token.exp = now THEN 0
    ELSE token.admin_id

\* verify_jwt_token: the admin_id of the payload, or 0 for None.  jwt.decode
\* raises InvalidTokenError on a bad signature and ExpiredSignatureError
\* once exp <= now.
verify_jwt_token(token) ==
    IF token.key # JWT_SECRET_KEY THEN 0
    ELSE IF token.exp <= now THEN 0
    ELSE token.admin_id

\* a create_session that forgets the timedelta
create_session_NoLifetime(admin_id, ip_address, token, t) ==
    [admin_id |-> admin_id,
     token |-> token,
     expires_at |-> t,
     ip_address |-> ip_address]

\* AdminSession.create_session followed by "session.token = token"; t is the
\* clock value read by create_session
create_session(admin_id, ip_address, token, t) ==
    [admin_id |-> admin_id,
     token |-> token,
     expires_at |-> t + Hours(1),
     ip_address |-> ip_address]

\* AdminSession.is_expired
is_expired(session) == now > session.expires_at

\* a sweep that was left out
cleanup_expired_sessions_Skipped(stored) == stored

\* cleanup_expired_sessions run on the rows stored: the rows that stay
cleanup_expired_sessions(stored) == {s \in stored : ~(s.expires_at < now)}

\* the Authorization header as the list auth_header.split(' '); <<>> is a
\* missing header
Headers ==
    {<<>>, <<"Basic", ForgedToken>>, <<"Bearer", ForgedToken>>}
        \cup {<<"Bearer", t>> : t \in issued}

HasBearer(auth_header) == Len(auth_header) >= 2 /\ auth_header[1] = "Bearer"

\* an authentication that trusts the token without loading its admin
AuthResult_TokenOnly(auth_header) ==
    IF ~HasBearer(auth_header)
    THEN [code |-> "UNAUTHORIZED", admin_id |-> 0]
    ELSE LET admin_id == verify_jwt_token(auth_header[2])
         IN  IF admin_id = 0
             THEN [code |-> "INVALID_TOKEN", admin_id |-> 0]
             ELSE [code |-> "OK", admin_id |-> admin_id]

\* require_admin_auth after its sweep: the error code, or OK with the admin
AuthResult(auth_header) ==
    IF ~HasBearer(auth_header)
    THEN [code |-> "UNAUTHORIZED", admin_id |-> 0]
    ELSE LET admin_id == verify_jwt_token(auth_header[2])
         IN  IF admin_id = 0
             THEN [code |-> "INVALID_TOKEN", admin_id |-> 0]
             ELSE IF admin_id \notin DOMAIN admins \/ ~admins[admin_id].is_active
             THEN [code |-> "ADMIN_NOT_FOUND", admin_id |-> 0]
             ELSE [code |-> "OK", admin_id |-> admin_id]

HeaderToken(auth_header) == IF Len(auth_header) >= 2 THEN auth_header[2] ELSE NoToken

Response(op, code) == [op |-> op, code |-> code]

\* the body of admin_login's 200 answer: expires_in is in seconds (line 148);
\* the token it carries joins issued
login_response ==
    [op |-> "login", code |-> "OK", expires_in |-> JWT_EXPIRATION_HOURS * 3600]

\* a login that looks at the active flag before it verifies the password
admin_login_ActiveFirst(username, password, ip) ==
    /\ LET found == {a \in DOMAIN admins : admins[a].username = username}
       IN  IF found = {}
           THEN /\ resp' = Response("login", "INVALID_CREDENTIALS")
                /\ UNCHANGED <<now, admins, sessions, issued>>
           ELSE LET a == CHOOSE x \in found : TRUE
                    token == generate_jwt_token(a)
                IN  IF ~admins[a].is_active
                    THEN /\ resp' = Response("login", "ACCOUNT_DISABLED")
                         /\ UNCHANGED <<now, admins, sessions, issued>>
                    ELSE IF ~verify_password(admins[a], password)
                    THEN /\ resp' = Response("login", "INVALID_CREDENTIALS")
                         /\ UNCHANGED <<now, admins, sessions, issued>>
                    ELSE IF \E s \in sessions : s.token = token
                    THEN /\ resp' = Response("login", "INTERNAL_ERROR")
                         /\ UNCHANGED <<now, admins, sessions, issued>>
                    ELSE \E d \in 0..MaxDrift :
                         /\ now + d <= MaxClock
                         /\ now' = now + d
                         /\ admins' = [admins EXCEPT ![a].last_login = now + d]
                         /\ sessions' = sessions \cup {create_session(a, ip, token, now + d)}
                         /\ issued' = issued \cup {token}
                         /\ resp' = login_response
    /\ UNCHANGED cp
    /\ UNCHANGED voteVars
    /\ UNCHANGED docVars

\* a login that stamps last_login before it looks at the active flag
admin_login_StampsDisabled(username, password, ip) ==
    /\ LET found == {a \in DOMAIN admins : admins[a].username = username}
       IN  IF found = {} \/ \A a \in found : ~verify_password(admins[a], password)
           THEN /\ resp' = Response("login", "INVALID_CREDENTIALS")
                /\ UNCHANGED <<now, admins, sessions, issued>>
           ELSE LET a == CHOOSE x \in found : TRUE
                    token == generate_jwt_token(a)
                IN  IF ~admins[a].is_active
                    THEN /\ resp' = Response("login", "ACCOUNT_DISABLED")
                         /\ admins' = [admins EXCEPT ![a].last_login = now]
                         /\ UNCHANGED <<now, sessions, issued>>
                    ELSE IF \E s \in sessions : s.token = token
                    THEN /\ resp' = Response("login", "INTERNAL_ERROR")
                         /\ UNCHANGED <<now, admins, sessions, issued>>
                    ELSE \E d \in 0..MaxDrift :
                         /\ now + d <= MaxClock
                         /\ now' = now + d
                         /\ admins' = [admins EXCEPT ![a].last_login = now + d]
                         /\ sessions' = sessions \cup {create_session(a, ip, token, now + d)}
                         /\ issued' = issued \cup {token}
                         /\ resp' = login_response
    /\ UNCHANGED cp
    /\ UNCHANGED voteVars
    /\ UNCHANGED docVars

\* admin_login; the clock may move by d <= MaxDrift between the read of
\* generate_jwt_token (line 30) and the reads for last_login (line 135) and
\* in create_session (line 228)
admin_login(username, password, ip) ==
    /\ LET found == {a \in DOMAIN admins : admins[a].username = username}
       IN  IF found = {} \/ \A a \in found : ~verify_password(admins[a], password)
           THEN /\ resp' = Response("login", "INVALID_CREDENTIALS")
                /\ UNCHANGED <<now, admins, sessions, issued>>
           ELSE LET a == CHOOSE x \in found : TRUE
                    token == generate_jwt_token(a)
                IN  IF ~admins[a].is_active
                    THEN /\ resp' = Response("login", "ACCOUNT_DISABLED")
                         /\ UNCHANGED <<now, admins, sessions, issued>>
                    ELSE IF \E s \in sessions : s.token = token
                    THEN \* UNIQUE(token) refuses the row: rollback, 500
                         /\ resp' = Response("login", "INTERNAL_ERROR")
                         /\ UNCHANGED <<now, admins, sessions, issued>>
                    ELSE \E d \in 0..MaxDrift :
                         /\ now + d <= MaxClock
                         /\ now' = now + d
                         /\ admins' = [admins EXCEPT ![a].last_login = now + d]
                         /\ sessions' = sessions \cup {create_session(a, ip, token, now + d)}
                         /\ issued' = issued \cup {token}
                         /\ resp' = login_response
    /\ UNCHANGED cp
    /\ UNCHANGED voteVars
    /\ UNCHANGED docVars

\* a logout that deletes the looked-up row without testing that one was found
logout_result_MissingRowFails(auth_header, stored) ==
    LET auth == AuthResult(auth_header)
        swept == cleanup_expired_sessions(stored)
        token == HeaderToken(auth_header)
    IN  IF auth.code # "OK"
        THEN [code |-> auth.code, sessions |-> swept]
        ELSE IF \A s \in swept : s.token # token
        THEN [code |-> "INTERNAL_ERROR", sessions |-> swept]
        ELSE [code |-> "OK", sessions |-> {s \in swept : s.token # token}]

\* a logout that deletes every session of the admin who logs out
logout_result_AllOfAdmin(auth_header, stored) ==
    LET auth == AuthResult(auth_header)
        swept == cleanup_expired_sessions(stored)
    IN  IF auth.code # "OK"
        THEN [code |-> auth.code, sessions |-> swept]
        ELSE [code |-> "OK", sessions |-> {s \in swept : s.admin_id # auth.admin_id}]

\* admin_logout behind require_admin_auth, run on the session rows stored:
\* the answer and the rows left.  AdminSession.query.filter_by(token).first()
\* may find no row; the delete is then skipped and the answer is still 200.
logout_result(auth_header, stored) ==
    LET auth == AuthResult(auth_header)
        swept == cleanup_expired_sessions(stored)
        token == HeaderToken(auth_header)
    IN  IF auth.code # "OK"
        THEN [code |-> auth.code, sessions |-> swept]
        ELSE [code |-> "OK", sessions |-> {s \in swept : s.token # token}]

admin_logout(auth_header) ==
    /\ LET r == logout_result(auth_header, sessions)
       IN  /\ sessions' = r.sessions
           /\ resp' = Response("logout", r.code)
    /\ UNCHANGED <<now, admins, issued, cp>>
    /\ UNCHANGED voteVars
    /\ UNCHANGED docVars

\* get_admin_profile behind require_admin_auth: a protected read
get_admin_profile(auth_header) ==
    /\ sessions' = cleanup_expired_sessions(sessions)
    /\ resp' = Response("profile", AuthResult(auth_header).code)
    /\ UNCHANGED <<now, admins, issued, cp>>
    /\ UNCHANGED voteVars
    /\ UNCHANGED docVars

\* get_all_votes behind require_admin_auth: reads the votes table
get_all_votes(auth_header) ==
    /\ sessions' = cleanup_expired_sessions(sessions)
    /\ resp' = Response("votes", AuthResult(auth_header).code)
    /\ UNCHANGED <<now, admins, issued, cp>>
    /\ UNCHANGED voteVars
    /\ UNCHANGED docVars

\* export_to_csv behind require_admin_auth: reads the tables it exports
export_to_csv(auth_header) ==
    /\ sessions' = cleanup_expired_sessions(sessions)
    /\ resp' = Response("export", AuthResult(auth_header).code)
    /\ UNCHANGED <<now, admins, issued, cp>>
    /\ UNCHANGED voteVars
    /\ UNCHANGED docVars

\* a verify_token that does not load the admin of the token
verify_token_result_TokenOnly(auth_header) ==
    IF ~HasBearer(auth_header)
    THEN [success |-> FALSE, valid |-> FALSE, admin |-> 0]
    ELSE LET admin_id == verify_jwt_token(auth_header[2])
         IN  IF admin_id = 0
             THEN [success |-> TRUE, valid |-> FALSE, admin |-> 0]
             ELSE [success |-> TRUE, valid |-> TRUE, admin |-> admin_id]

\* the body of verify_token's answer (lines 283-320): success, valid and the
\* id of the admin it describes (0 when there is none)
verify_token_result(auth_header) ==
    IF ~HasBearer(auth_header)
    THEN [success |-> FALSE, valid |-> FALSE, admin |-> 0]
    ELSE LET admin_id == verify_jwt_token(auth_header[2])
         IN  IF admin_id = 0
             THEN [success |-> TRUE, valid |-> FALSE, admin |-> 0]
             ELSE IF admin_id \notin DOMAIN admins \/ ~admins[admin_id].is_active
             THEN [success |-> TRUE, valid |-> FALSE, admin |-> 0]
             ELSE [success |-> TRUE, valid |-> TRUE, admin |-> admin_id]

\* verify_token: not behind require_admin_auth, so no sweep; every answer of
\* the handler is a 200
verify_token(auth_header) ==
    /\ LET r == verify_token_result(auth_header)
       IN  resp' = [op |-> "verify_token", code |-> "OK", success |-> r.success,
                    valid |-> r.valid, admin |-> r.admin]
    /\ UNCHANGED <<now, admins, sessions, issued, cp>>
    /\ UNCHANGED voteVars
    /\ UNCHANGED docVars

\* a length check that is off by one
change_password_code_OffByOne(auth_header, current_password, new_password) ==
    LET auth == AuthResult(auth_header)
    IN  IF auth.code # "OK" THEN auth.code
        ELSE IF current_password = EmptyStr \/ new_password = EmptyStr
             THEN "MISSING_FIELD"
        ELSE IF ~verify_password(admins[auth.admin_id], current_password)
             THEN "INVALID_PASSWORD"
        ELSE IF Len(new_password) <= 6 THEN "WEAK_PASSWORD"
        ELSE "OK"

\* the answer of change_password: the refusal of require_admin_auth, else the
\* first check of the handler that fails (lines 226-253)
change_password_code(auth_header, current_password, new_password) ==
    LET auth == AuthResult(auth_header)
    IN  IF auth.code # "OK" THEN auth.code
        ELSE IF current_password = EmptyStr \/ new_password = EmptyStr
             THEN "MISSING_FIELD"
        ELSE IF ~verify_password(admins[auth.admin_id], current_password)
             THEN "INVALID_PASSWORD"
        ELSE IF Len(new_password) < 6 THEN "WEAK_PASSWORD"
        ELSE "OK"

\* change_password up to the commit of the new hash (line 258)
change_password(auth_header, current_password, new_password) ==
    /\ LET a == AuthResult(auth_header).admin_id
           code == change_password_code(auth_header, current_password, new_password)
       IN  /\ sessions' = cleanup_expired_sessions(sessions)
           /\ IF code = "OK"
              THEN \* one change_password per admin is between its two commits
                   /\ a \notin cp
                   /\ \E salt \in Salts :
                        admins' = [admins EXCEPT ![a].password_hash =
                                      hash_password(new_password, salt)]
                   /\ cp' = cp \cup {a}
                   /\ UNCHANGED resp
              ELSE /\ resp' = Response("change_password", code)
                   /\ UNCHANGED <<admins, cp>>
    /\ UNCHANGED <<now, issued>>
    /\ UNCHANGED voteVars
    /\ UNCHANGED docVars

\* AdminSession.query.filter_by(admin_id=admin.id).delete() run on the rows
\* stored: the rows that stay
delete_sessions_of(admin_id, stored) == {s \in stored : s.admin_id # admin_id}

\* change_password from the bulk delete of the admin's sessions (line 261)
change_password_revoke(a) ==
    /\ a \in cp
    /\ cp' = cp \ {a}
    /\ sessions' = delete_sessions_of(a, sessions)
    /\ resp' = Response("change_password", "OK")
    /\ UNCHANGED <<now, admins, issued>>
    /\ UNCHANGED voteVars
    /\ UNCHANGED docVars

----------------------------------------------------------------------------
(* Complaints and the menu PDF                                             *)

\* the tables hold at most this many rows
MaxComplaints == 2
MaxPdfs == 2

Categories == {EmptyStr, <<"f">>}
Messages == {<<"x">>}
Urgencies == {EmptyStr, <<"l", "o", "w">>, <<"L", "o", "w">>, <<"n", "o">>}
valid_urgency_levels ==
    {<<"l", "o", "w">>, <<"m", "e", "d", "i", "u", "m">>,
     <<"h", "i", "g", "h">>, <<"u", "r", "g", "e", "n", "t">>}
pending == <<"p", "e", "n", "d", "i", "n", "g">>

\* submit_complaint
submit_complaint(category, message, urgency, ip) ==
    /\ LET missing == MissingField(<<<<"category", category>>, <<"message", message>>,
                                     <<"urgency", urgency>>>>)
       IN  IF missing # "none"
           THEN /\ resp' = Response("complaint", "MISSING_FIELD")
                /\ UNCHANGED complaints
           ELSE IF Lower(urgency) \notin valid_urgency_levels
           THEN /\ resp' = Response("complaint", "INVALID_URGENCY")
                /\ UNCHANGED complaints
           ELSE /\ Len(complaints) < MaxComplaints
                /\ complaints' = Append(complaints,
                      [id |-> Len(complaints) + 1,
                       category |-> category,
                       message |-> message,
                       urgency |-> Lower(urgency),
                       ip_address |-> ip,
                       status |-> pending])
                /\ resp' = Response("complaint", "OK")
    /\ UNCHANGED <<now, admins, sessions, issued, cp, menu_pdfs>>
    /\ UNCHANGED voteVars

\* the id in the URL and the status of the JSON body
ComplaintIds == 1..(MaxComplaints + 1)
StatusValues == {<<"c", "l", "o", "s", "e", "d">>, <<"C", "l", "o", "s", "e", "d">>,
                 <<"d", "o", "n", "e">>}
valid_statuses ==
    {<<"p", "e", "n", "d", "i", "n", "g">>,
     <<"i", "n", "_", "p", "r", "o", "g", "r", "e", "s", "s">>,
     <<"r", "e", "s", "o", "l", "v", "e", "d">>, <<"c", "l", "o", "s", "e", "d">>}

\* PUT /complaints/<int:complaint_id>/status.  Flask calls the view with the
\* URL variable as a keyword argument; decorated_function passes it on in
\* "return f(*args, **kwargs)" (line 90) to update_complaint_status(), which
\* is defined without parameters (line 789).  The call raises TypeError
\* outside the handler's try block, so lines 791-832 never run and the
\* request ends as an unhandled 500.
update_complaint_status(auth_header, complaint_id, status) ==
    /\ LET auth == AuthResult(auth_header)
       IN  resp' = [op |-> "update_complaint_status",
                    code |-> IF auth.code # "OK" THEN auth.code ELSE "TypeError",
                    complaint_id |-> complaint_id,
                    status |-> status]
    /\ sessions' = cleanup_expired_sessions(sessions)
    /\ UNCHANGED <<now, admins, issued, cp>>
    /\ UNCHANGED docVars
    /\ UNCHANGED voteVars

\* the pdf_file part of the upload: None when the part is absent, else the
\* file name
Files == {None, Given(EmptyStr), Given(<<"a", ".", "t", "x", "t">>),
          Given(<<"a", ".", "P", "D", "F">>)}
EndsWithPdf(filename) ==
    /\ Len(filename) >= 4
    /\ SubSeq(Lower(filename), Len(filename) - 3, Len(filename)) = <<".", "p", "d", "f">>

\* upload_menu_pdf behind the require_admin_auth of pdf_routes.py, which calls
\* the view without reading the Authorization header (lines 11-18).  The
\* stored name carries the clock value; file_size is left out.
upload_menu_pdf(auth_header, file) ==
    /\ LET code == IF file = None \/ file[1] = EmptyStr THEN "NO_FILE"
                   ELSE IF ~EndsWithPdf(file[1]) THEN "INVALID_FILE"
                   ELSE "OK"
       IN  /\ resp' = [op |-> "upload_pdf", code |-> code, auth_header |-> auth_header]
           /\ IF code = "OK"
              THEN /\ Len(menu_pdfs) < MaxPdfs
                   /\ menu_pdfs' = Append(menu_pdfs,
                         [id |-> Len(menu_pdfs) + 1,
                          filename |-> <<"menu_pdf_", now, ".pdf">>,
                          original_filename |-> file[1],
                          uploaded_by |-> 1])
              ELSE UNCHANGED menu_pdfs
    /\ UNCHANGED <<now, admins, sessions, issued, cp, complaints>>
    /\ UNCHANGED voteVars

\* the active flag of an admin is written outside the application
set_is_active(a, active) ==
    /\ admins[a].is_active # active
    /\ admins' = [admins EXCEPT ![a].is_active = active]
    /\ UNCHANGED <<now, sessions, issued, resp, cp>>
    /\ UNCHANGED voteVars
    /\ UNCHANGED docVars

\* the row of the last admin is deleted outside the application; its session
\* rows stay
delete_admin ==
    /\ admins # <<>>
    /\ admins' = SubSeq(admins, 1, Len(admins) - 1)
    /\ UNCHANGED <<now, sessions, issued, resp, cp>>
    /\ UNCHANGED voteVars
    /\ UNCHANGED docVars

\* time passes
Tick ==
    /\ now < MaxClock
    /\ now' = now + 1
    /\ UNCHANGED <<admins, sessions, issued, resp, cp>>
    /\ UNCHANGED voteVars
    /\ UNCHANGED docVars

----------------------------------------------------------------------------

InitVotes ==
    /\ votes = {}
    /\ vreq = [w \in Workers |-> IdleReq]

InitAdmin ==
    /\ now = 0
    /\ admins = <<[username |-> "admin",
                    password_hash |-> hash_password(DefaultPassword, BootSalt),
                    is_active |-> TRUE,
                    last_login |-> 0 - 1]>>
    /\ sessions = {}
    /\ issued = {}
    /\ resp = Response("none", "none")
    /\ cp = {}

InitDocs ==
    /\ complaints = <<>>
    /\ menu_pdfs = <<>>

Init == InitVotes /\ InitAdmin /\ InitDocs

\* the password functions on their own: any stored hash to start with
InitHash ==
    /\ InitVotes
    /\ now = 0
    /\ \E h \in StoredHashes :
          admins = <<[username |-> "admin", password_hash |-> h,
                      is_active |-> TRUE, last_login |-> 0 - 1]>>
    /\ sessions = {}
    /\ issued = {}
    /\ resp = Response("none", "none")
    /\ cp = {}
    /\ InitDocs

NextHash ==
    \/ \E a \in DOMAIN admins, password \in TriedPasswords, salt \in Salts :
            set_password(a, password, salt)
    \/ \E a \in DOMAIN admins, password \in TriedPasswords : check_password(a, password)

SpecHash == InitHash /\ [][NextHash]_vars

\* the identity deriver on its own
NextIdent ==
    \E w \in Workers, ip \in IdentIps, ua \in IdentUserAgents,
       additional_data \in IdentExtras : derive(w, ip, ua, additional_data)

SpecIdent == Init /\ [][NextIdent]_vars

\* a request that misses a field is refused before the client address is read
AnyIp == CHOOSE ip \in Ips : TRUE
AnyUserAgent == CHOOSE ua \in UserAgents : TRUE

NextVote ==
    \/ \E w \in Workers, day \in Days, meal \in Meals, dish \in Dishes :
          IF day = EmptyStr \/ meal = EmptyStr \/ dish = EmptyStr
          THEN SubmitVoteCheck(w, day, meal, dish, AnyIp, AnyUserAgent)
          ELSE \E ip \in Ips, ua \in UserAgents : SubmitVoteCheck(w, day, meal, dish, ip, ua)
    \/ \E w \in Workers : SubmitVoteInsert(w)
    \/ \E w \in Workers, day \in Days, meal \in Meals :
          IF day = EmptyStr \/ meal = EmptyStr
          THEN CheckVoteStatus(w, day, meal, AnyIp, AnyUserAgent)
          ELSE \E ip \in Ips, ua \in UserAgents : CheckVoteStatus(w, day, meal, ip, ua)

SpecVote == Init /\ [][NextVote]_vars

NextAdmin ==
    \/ \E username \in Usernames, password \in Passwords, ip \in AdminIps :
            admin_login(username, password, ip)
    \/ \E h \in Headers : admin_logout(h)
    \/ \E h \in Headers : get_admin_profile(h)
    \/ \E h \in Headers : verify_token(h)
    \/ \E h \in Headers :
          \* the body is not read when the header is refused
          IF AuthResult(h).code = "OK"
          THEN \E cur \in Passwords, new \in Passwords : change_password(h, cur, new)
          ELSE change_password(h, EmptyStr, EmptyStr)
    \/ \E a \in DOMAIN admins : change_password_revoke(a)
    \/ Tick

SpecAdmin == Init /\ [][NextAdmin]_vars

\* the token authority while admin accounts are provisioned out of band
NextAccounts ==
    \/ \E username \in Usernames, password \in Passwords, ip \in AdminIps :
            admin_login(username, password, ip)
    \/ \E h \in Headers : admin_logout(h)
    \/ \E h \in Headers : get_admin_profile(h)
    \/ \E h \in Headers : verify_token(h)
    \/ \E a \in DOMAIN admins, active \in BOOLEAN : set_is_active(a, active)
    \/ delete_admin
    \/ Tick

SpecAccounts == Init /\ [][NextAccounts]_vars

\* one voter and the admin side by side: votes are stored while the admin
\* logs in and out, reads and exports, changes the password and time passes
NextLedger ==
    \/ \E dish \in Dishes \ {EmptyStr} :
          SubmitVoteCheck("w1", <<"M">>, <<"l">>, dish, AnyIp, AnyUserAgent)
    \/ SubmitVoteInsert("w1")
    \/ CheckVoteStatus("w1", <<"m">>, <<"L">>, AnyIp, AnyUserAgent)
    \/ \E ip \in AdminIps : admin_login("admin", DefaultPassword, ip)
    \/ \E t \in issued : admin_logout(<<"Bearer", t>>)
    \/ \E t \in issued : get_all_votes(<<"Bearer", t>>)
    \/ \E t \in issued : export_to_csv(<<"Bearer", t>>)
    \/ \E t \in issued :
          change_password(<<"Bearer", t>>, DefaultPassword, DefaultPassword)
    \/ \E a \in DOMAIN admins : change_password_revoke(a)
    \/ Tick

SpecLedger == Init /\ [][NextLedger]_vars

\* the menu PDF, with the admin logging in and time passing
NextPdf ==
    \/ \E ip \in AdminIps : admin_login("admin", DefaultPassword, ip)
    \/ \E h \in Headers, file \in Files : upload_menu_pdf(h, file)
    \/ Tick

SpecPdf == Init /\ [][NextPdf]_vars

\* complaints, with the admin logging in and time passing
NextComplaints ==
    \/ \E ip \in AdminIps : admin_login("admin", DefaultPassword, ip)
    \/ \E category \in Categories, message \in Messages, urgency \in Urgencies :
          submit_complaint(category, message, urgency, AnyIp)
    \/ \E h \in Headers, complaint_id \in ComplaintIds, status \in StatusValues :
          update_complaint_status(h, complaint_id, status)
    \/ Tick

SpecComplaints == Init /\ [][NextComplaints]_vars

\* a second admin, inserted in admin_users out of band, next to the default one
SecondAdmin ==
    [username |-> "ops",
     password_hash |-> hash_password(DefaultPassword, <<"s2">>),
     is_active |-> TRUE,
     last_login |-> 0 - 1]

\* a vote that submit_vote stored earlier
StoredVote ==
    [id |-> 1, day |-> <<"m">>, meal |-> <<"l">>, dish |-> <<"x">>,
     user_identifier |-> create_user_identifier(AnyIp, AnyUserAgent, None),
     ip_address |-> AnyIp]

\* logins stop once this many tokens were issued
MaxIssued == 2

InitRevoke ==
    /\ votes = {StoredVote}
    /\ vreq = [w \in Workers |-> IdleReq]
    /\ now = 0
    /\ admins = <<[username |-> "admin",
                    password_hash |-> hash_password(DefaultPassword, BootSalt),
                    is_active |-> TRUE,
                    last_login |-> 0 - 1],
                  SecondAdmin>>
    /\ sessions = {}
    /\ issued = {}
    /\ resp = Response("none", "none")
    /\ cp = {}
    /\ InitDocs

\* two admins log in and out and change their passwords over a stored vote
NextRevoke ==
    \/ \E username \in {"admin", "ops"}, ip \in AdminIps :
          /\ Cardinality(issued) < MaxIssued
          /\ admin_login(username, DefaultPassword, ip)
    \/ \E t \in issued : admin_logout(<<"Bearer", t>>)
    \/ \E t \in issued :
          change_password(<<"Bearer", t>>, DefaultPassword, DefaultPassword)
    \/ \E a \in DOMAIN admins : change_password_revoke(a)
    \/ Tick

SpecRevoke == InitRevoke /\ [][NextRevoke]_vars

Next == NextVote \/ NextAdmin \/ NextAccounts \/ NextLedger \/ NextPdf
            \/ NextComplaints \/ NextRevoke

Spec == Init /\ [][Next]_vars

----------------------------------------------------------------------------
(* Properties of the vote ledger                                           *)

\* the key a vote request of worker w addresses
ReqIdent(r) == create_user_identifier(r.ip, r.ua, None)
SameKey(r1, r2) ==
    /\ Lower(r1.day) = Lower(r2.day)
    /\ Lower(r1.meal) = Lower(r2.meal)
    /\ ReqIdent(r1) = ReqIdent(r2)
Stored(r) ==
    {v \in votes : /\ v.day = Lower(r.day)
                   /\ v.meal = Lower(r.meal)
                   /\ v.user_identifier = ReqIdent(r)}
Answered(w) ==
    /\ vreq[w].pc = "done"
    /\ vreq[w].kind = "vote"
    /\ vreq[w].code \in {"OK", "DUPLICATE_VOTE", "INTERNAL_ERROR"}

\* C1: no two stored votes share the same (day, meal, user_identifier).
C1_UniqueVoteKey ==
    \A v1 \in votes, v2 \in votes :
        (/\ v1.day = v2.day
         /\ v1.meal = v2.meal
         /\ v1.user_identifier = v2.user_identifier) => v1 = v2

\* a second insert for a stored key was attempted and refused
C1_Witness ==
    \E w \in Workers :
        /\ vreq[w].pc = "done" /\ vreq[w].kind = "vote"
        /\ vreq[w].code = "INTERNAL_ERROR"
        /\ Cardinality(Stored(vreq[w])) = 1
        /\ Cardinality(votes) = 2

\* C5: of two answered submit_vote requests for the same key at most one
\* reports success, and exactly one row for the key is stored.
C5_OneSuccessOneRow ==
    \A w1 \in Workers, w2 \in Workers :
        (w1 # w2 /\ Answered(w1) /\ Answered(w2) /\ SameKey(vreq[w1], vreq[w2]))
            => /\ ~(vreq[w1].code = "OK" /\ vreq[w2].code = "OK")
               /\ Cardinality({v \in votes :
                        /\ v.day = Lower(vreq[w1].day)
                        /\ v.meal = Lower(vreq[w1].meal)
                        /\ v.user_identifier = ReqIdent(vreq[w1])}) = 1

\* both requests passed the existence check before either inserted
C5_Witness ==
    \E w1 \in Workers, w2 \in Workers :
        /\ w1 # w2 /\ Answered(w1) /\ Answered(w2)
        /\ SameKey(vreq[w1], vreq[w2])
        /\ vreq[w1].code = "OK"
        /\ vreq[w2].code = "INTERNAL_ERROR"
        /\ vreq[w1].dish # vreq[w2].dish

\* C6: a submit_vote whose insert is refused by the uniqueness constraint
\* answers DUPLICATE_VOTE.
C6_RaceLoserGetsDuplicateVote ==
    [][\A w \in Workers :
        (/\ vreq[w].pc = "insert"
         /\ vreq'[w].pc = "done"
         /\ \E v \in votes : /\ v.day = Lower(vreq[w].day)
                              /\ v.meal = Lower(vreq[w].meal)
                              /\ v.user_identifier = ReqIdent(vreq[w]))
            => vreq'[w].code = "DUPLICATE_VOTE"]_vars

\* a submit_vote request of worker w passes validation in this step
VoteChecked(w) ==
    /\ Free(w)
    /\ vreq'[w] # vreq[w]
    /\ vreq'[w].kind = "vote"
    /\ vreq'[w].code # "MISSING_FIELD"

\* a check-vote request of worker w is answered in this step
CheckAnswered(w) ==
    /\ Free(w)
    /\ vreq'[w] # vreq[w]
    /\ vreq'[w].kind = "check"
    /\ vreq'[w].code = "OK"

\* C7: non-empty day, meal and dish pass validation; a submit_vote for a key
\* with no stored vote stores one vote with the submitted dish and succeeds;
\* a submit_vote for a key that has a stored vote answers DUPLICATE_VOTE
\* whatever the dish and leaves the ledger unchanged.
C7_FirstVoteWinsLaterRejected ==
    /\ \A day \in Days, meal \in Meals, dish \in Dishes :
          (day # EmptyStr /\ meal # EmptyStr /\ dish # EmptyStr)
              => MissingField(<<<<"day", day>>, <<"meal", meal>>, <<"dish", dish>>>>) = "none"
    /\ [][\A w \in Workers :
            /\ VoteChecked(w) =>
                  /\ votes' = votes
                  /\ IF Stored(vreq'[w]) # {}
                     THEN vreq'[w].pc = "done" /\ vreq'[w].code = "DUPLICATE_VOTE"
                     ELSE vreq'[w].pc = "insert"
            /\ (vreq[w].pc = "insert" /\ vreq'[w].pc = "done" /\ Stored(vreq[w]) = {}) =>
                  /\ vreq'[w].code = "OK"
                  /\ \E v \in votes' \ votes :
                        /\ votes' = votes \cup {v}
                        /\ v.id = vreq'[w].vote_id
                        /\ v.day = Lower(vreq[w].day)
                        /\ v.meal = Lower(vreq[w].meal)
                        /\ v.dish = vreq[w].dish
                        /\ v.user_identifier = ReqIdent(vreq[w])]_vars

\* a later vote for a stored key with another dish was rejected, and another
\* identity's vote is in the ledger
C7_Witness ==
    \E w \in Workers :
        /\ vreq[w].pc = "done" /\ vreq[w].kind = "vote"
        /\ vreq[w].code = "DUPLICATE_VOTE"
        /\ \E v \in Stored(vreq[w]) : v.dish # vreq[w].dish
        /\ \E v \in votes : v.user_identifier # ReqIdent(vreq[w])

\* comparison of two strings up to letter case, and strings without capitals
FoldEq(a, b) ==
    /\ Len(a) = Len(b)
    /\ \A i \in DOMAIN a : a[i] = b[i] \/ {a[i], b[i]} \in {{"M", "m"}, {"L", "l"}}
NoUpper(s) == \A i \in DOMAIN s : s[i] \notin {"M", "L"}
StoredFold(r) ==
    {v \in votes : /\ FoldEq(v.day, r.day)
                   /\ FoldEq(v.meal, r.meal)
                   /\ v.user_identifier = ReqIdent(r)}

\* C8: stored votes carry day and meal in lower case; a submit_vote whose day
\* and meal equal a stored vote's up to letter case, from the same identity,
\* answers DUPLICATE_VOTE, and check-vote reports that vote.
C8_CaseNormalized ==
    [][/\ \A v \in votes' : NoUpper(v.day) /\ NoUpper(v.meal)
       /\ \A w \in Workers :
            /\ (VoteChecked(w) /\ StoredFold(vreq'[w]) # {})
                  => vreq'[w].code = "DUPLICATE_VOTE"
            /\ (CheckAnswered(w) /\ StoredFold(vreq'[w]) # {})
                  => vreq'[w].has_voted /\ vreq'[w].vote_details = StoredFold(vreq'[w])]_vars

\* a vote whose day and meal differ in case from the stored ones was rejected
C8_Witness ==
    \E w \in Workers :
        /\ vreq[w].pc = "done" /\ vreq[w].kind = "vote"
        /\ vreq[w].code = "DUPLICATE_VOTE"
        /\ \E v \in StoredFold(vreq[w]) : v.day # vreq[w].day /\ v.meal # vreq[w].meal

\* C9: check-vote reports has_voted exactly when a vote is stored for the key,
\* returns that stored vote, and changes no votes, sessions or admins.
C9_HasVotedPureLookup ==
    [][\A w \in Workers :
        CheckAnswered(w) =>
            /\ vreq'[w].has_voted = (Stored(vreq'[w]) # {})
            /\ vreq'[w].vote_details = Stored(vreq'[w])
            /\ Cardinality(vreq'[w].vote_details) <= 1
            /\ votes' = votes /\ sessions' = sessions /\ admins' = admins]_vars

\* one check-vote found the stored vote while another found none
C9_Witness ==
    \E w1 \in Workers, w2 \in Workers :
        /\ vreq[w1].pc = "done" /\ vreq[w1].kind = "check" /\ vreq[w1].code = "OK"
        /\ vreq[w1].has_voted
        /\ vreq[w1].vote_details = Stored(vreq[w1])
        /\ Cardinality(vreq[w1].vote_details) = 1
        /\ vreq[w2].pc = "done" /\ vreq[w2].kind = "check" /\ vreq[w2].code = "OK"
        /\ ~vreq[w2].has_voted

----------------------------------------------------------------------------
(* Properties of the token authority                                       *)

\* validate: require_admin_auth admits a request that presents token t
Admits(t) == AuthResult(<<"Bearer", t>>).code = "OK"

TTL == Hours(JWT_EXPIRATION_HOURS)

\* C2: when change_password has completed for an admin, no token issued to
\* that admin before is admitted any more.
C2_PasswordChangeRevokesTokens ==
    [][\A a \in DOMAIN admins :
        (a \in cp /\ a \notin cp' /\ resp'.op = "change_password" /\ resp'.code = "OK")
            => \A t \in issued : t.admin_id = a => ~Admits(t)']_vars

\* C3: when logout has deleted the session of a token, the token is not
\* admitted any more.
C3_LogoutRevokesToken ==
    [][\A t \in issued :
        (/\ resp'.op = "logout" /\ resp'.code = "OK"
         /\ \E s \in sessions : s.token = t
         /\ ~\E s \in sessions' : s.token = t)
            => ~Admits(t)']_vars

\* C4: a presented token is admitted only if a session row with that token
\* is stored, its expiry has not passed, and its admin exists and is active.
C4_AdmittedOnlyWithLiveSession ==
    \A h \in Headers :
        AuthResult(h).code = "OK"
            => \E s \in sessions :
                  /\ s.token = h[2]
                  /\ now <= s.expires_at
                  /\ s.admin_id \in DOMAIN admins
                  /\ admins[s.admin_id].is_active

\* C10: a token returned by login is admitted at every time before the TTL
\* has elapsed since the login, as long as its session row is stored and its
\* admin is active, and is rejected at every time after the TTL has elapsed.
C10_TokenValidForTTL ==
    \A t \in issued :
        /\ (/\ now < t.iat + TTL
            /\ \E s \in sessions : s.token = t
            /\ admins[t.admin_id].is_active) => Admits(t)
        /\ now > t.iat + TTL => ~Admits(t)

\* the clock has moved: one token is past its TTL and rejected, another was
\* issued earlier than now and is still admitted
C10_Witness ==
    \E t1 \in issued, t2 \in issued :
        /\ now > t1.iat + TTL /\ ~Admits(t1)
        /\ t2.iat < now /\ now < t2.iat + TTL
        /\ \E s \in sessions : s.token = t2
        /\ Admits(t2)

\* a login request is answered in this step with one of the refusals of
\* lines 110-129
LoginRefused ==
    /\ resp' # resp
    /\ resp'.op = "login"
    /\ resp'.code \in {"INVALID_CREDENTIALS", "ACCOUNT_DISABLED"}

\* C11: a login refused for an unknown username, a password that does not
\* verify or an inactive admin stores no session, hands out no token and
\* leaves every admin's last_login and password hash as they were.
C11_FailedLoginChangesNothing ==
    [][LoginRefused =>
          /\ sessions' = sessions
          /\ issued' = issued
          /\ DOMAIN admins' = DOMAIN admins
          /\ \A a \in DOMAIN admins :
                /\ admins'[a].last_login = admins[a].last_login
                /\ admins'[a].password_hash = admins[a].password_hash]_vars

\* an admin who logged in before was deactivated and then refused
C11_Witness ==
    /\ resp.op = "login" /\ resp.code = "ACCOUNT_DISABLED"
    /\ sessions # {}
    /\ \E a \in DOMAIN admins : ~admins[a].is_active /\ admins[a].last_login >= 0

\* a login succeeds in this step: it answers 200 or stores a session row (no
\* other handler adds rows)
LoginSucceeded ==
    \/ sessions' \ sessions # {}
    \/ resp' # resp /\ resp'.op = "login" /\ resp'.code = "OK"

\* C12: a successful login adds exactly one session row; the row belongs to
\* the admin who logged in, carries the token handed to the caller and
\* expires one hour after the clock read of the login; the admin's last_login
\* is set, expires_in is 3600 seconds, and the rows stored before stay.
C12_LoginAddsOneSession ==
    [][LoginSucceeded =>
          /\ resp'.op = "login" /\ resp'.code = "OK"
          /\ resp'.expires_in = 3600
          /\ \E s \in sessions' \ sessions :
                /\ sessions' = sessions \cup {s}
                /\ s.token \notin {old.token : old \in sessions}
                /\ s.token \in issued' /\ issued' = issued \cup {s.token}
                /\ s.token.admin_id = s.admin_id
                /\ s.admin_id \in DOMAIN admins
                /\ admins[s.admin_id].username = "admin"
                /\ admins[s.admin_id].is_active
                /\ s.expires_at = now' + Hours(1)
                /\ now <= now' /\ now' <= now + MaxDrift
                /\ admins' = [admins EXCEPT ![s.admin_id].last_login = now']]_vars

\* a login has just succeeded while an earlier session was stored, and the
\* clock moved between the token's clock read and the row's
C12_Witness ==
    /\ resp.op = "login" /\ resp.code = "OK"
    /\ Cardinality(sessions) >= 2
    /\ \E s \in sessions :
          /\ s.expires_at = now + Hours(1)
          /\ s.token.iat < now
          /\ admins[s.admin_id].last_login = now

\* C13: the token of every session a login stores differs from every token
\* handed out before, and no login is refused because its token collides
\* with a stored one, also when the same admin logs in twice at one clock
\* value.
C13_TokensNeverCollide ==
    [][/\ \A s \in sessions' \ sessions : s.token \notin issued
       /\ (resp' # resp /\ resp'.op = "login") => resp'.code # "INTERNAL_ERROR"]_vars

ProtectedOps == {"logout", "profile", "change_password"}

\* require_admin_auth runs in this step: a protected endpoint answers, or
\* change_password commits the new hash, or a repeated answer hides a sweep
ProtectedCall ==
    \/ resp' # resp /\ resp'.op \in ProtectedOps /\ cp' = cp
    \/ cp' \ cp # {}
    \/ resp' = resp /\ resp.op \in ProtectedOps /\ cp' = cp /\ sessions' # sessions

\* C14: a call to a protected admin endpoint, admitted or refused, deletes
\* every stored session whose expires_at is earlier than the current time, so
\* none is stored right after the call; the sweep deletes no session that has
\* not expired (the only such row that may go is the one logout deletes).
C14_SweepBeforeValidate ==
    [][ProtectedCall =>
          /\ now' = now
          /\ \A s \in sessions' : s \in sessions /\ s.expires_at >= now
          /\ LET gone == {s \in sessions \ sessions' : s.expires_at >= now}
             IN  IF resp'.op = "logout" /\ resp'.code = "OK" /\ cp' = cp
                 THEN Cardinality(gone) <= 1 /\ \A s \in gone : Admits(s.token)
                 ELSE gone = {}]_vars

\* a refused protected call has run at the last clock value: tokens were
\* issued whose rows are gone, and the rows that have not expired are stored
C14_Witness ==
    /\ resp.op = "profile" /\ resp.code = "UNAUTHORIZED"
    /\ now = MaxClock
    /\ sessions # {}
    /\ \A s \in sessions : s.expires_at >= now
    /\ \E t \in issued : t.exp < now /\ \A s \in sessions : s.token # t

\* C15: one validity boundary everywhere: the token of a stored session is
\* admitted exactly when now <= expires_at, the sweep removes a session only
\* when now > expires_at, and is_expired holds only when now > expires_at.
C15_SameValidityBoundary ==
    \A s \in sessions :
        /\ Admits(s.token) <=> now <= s.expires_at
        /\ s \notin cleanup_expired_sessions(sessions) => now > s.expires_at
        /\ is_expired(s) => now > s.expires_at

\* C16: once a token that login issued is refused, it is refused in every
\* later state, whatever logins, logouts, password changes, sweeps and clock
\* advances follow.
C16_RejectionIsPermanent ==
    [][\A t \in issued : ~Admits(t) => ~Admits(t)']_vars

\* a token that was refused before the last clock advance is still refused
\* after a later login and a later refused request
C16_Witness ==
    /\ resp.code = "INVALID_TOKEN"
    /\ \E t1 \in issued, t2 \in issued :
          /\ t1.exp < now /\ ~Admits(t1)
          /\ t2.iat > t1.exp /\ Admits(t2)

\* the admin a token names is deactivated or deleted
OwnerGone(t) == t.admin_id \notin DOMAIN admins \/ ~admins[t.admin_id].is_active

\* C17: a token whose admin is inactive or deleted is refused although it has
\* not expired and its session row is stored, and the handler behind the
\* check does not run: logout with it deletes no row, and a request answered
\* ADMIN_NOT_FOUND changes nothing but what the sweep removes.
C17_InactiveOwnerRejected ==
    /\ [](\A t \in issued :
            OwnerGone(t) =>
                /\ ~Admits(t)
                /\ LET r == logout_result(<<"Bearer", t>>, sessions)
                   IN  /\ r.code = IF t.exp > now THEN "ADMIN_NOT_FOUND" ELSE "INVALID_TOKEN"
                       /\ r.sessions = {s \in sessions : s.expires_at >= now})
    /\ [][(resp' # resp /\ resp'.code = "ADMIN_NOT_FOUND") =>
              /\ admins' = admins /\ issued' = issued /\ now' = now
              /\ \A s \in sessions \ sessions' : s.expires_at < now
              /\ sessions' \subseteq sessions]_vars

\* logout was refused for a deactivated admin whose token has not expired
\* and whose session row is still stored
C17_Witness ==
    /\ resp.op = "logout" /\ resp.code = "ADMIN_NOT_FOUND"
    /\ \E s \in sessions :
          /\ s.token \in issued
          /\ s.token.exp > now /\ s.expires_at >= now
          /\ s.admin_id \in DOMAIN admins
          /\ ~admins[s.admin_id].is_active

\* C18: logout is idempotent: when logout with a token has succeeded, logout
\* with the same token on the rows it left succeeds again and leaves the
\* stored sessions as they are.
C18_LogoutIdempotent ==
    \A t \in issued :
        LET h == <<"Bearer", t>>
            first == logout_result(h, sessions)
            second == logout_result(h, first.sessions)
        IN  first.code = "OK" =>
                /\ second.code = "OK"
                /\ second.sessions = first.sessions
                /\ \A s \in second.sessions : s.token # t

\* logout has succeeded for a token that is still within its lifetime: its
\* row is gone, another session is stored
C18_Witness ==
    /\ resp.op = "logout" /\ resp.code = "OK"
    /\ sessions # {}
    /\ \E t \in issued :
          /\ Admits(t)
          /\ \A s \in sessions : s.token # t
          /\ logout_result(<<"Bearer", t>>, sessions) = [code |-> "OK", sessions |-> sessions]

\* the stored digest matches the password, computed from the stored parts
Matches(a, password) ==
    /\ Len(admins[a].password_hash) = 2
    /\ admins[a].password_hash[2] = Sha256(password \o admins[a].password_hash[1])

\* change_password answers with a refusal of its own checks in this step
ChangeRefused(codes) ==
    /\ resp'.op = "change_password"
    /\ resp'.code \in codes
    /\ cp' = cp
    /\ resp' # resp \/ sessions' # sessions

\* C19 as stated: change_password answers INVALID_PASSWORD when
\* current_password does not verify, otherwise WEAK_PASSWORD when the new
\* password has fewer than 6 characters, and in either failure the password
\* hash and every session of the admin are unchanged.
C19_AsStated ==
    /\ [](\A h \in Headers, cur \in Passwords, new \in Passwords :
            AuthResult(h).code = "OK" =>
                LET a == AuthResult(h).admin_id
                    code == change_password_code(h, cur, new)
                IN  IF ~Matches(a, cur) THEN code = "INVALID_PASSWORD"
                    ELSE IF Len(new) < 6 THEN code = "WEAK_PASSWORD"
                    ELSE code = "OK")
    /\ [][ChangeRefused({"INVALID_PASSWORD", "WEAK_PASSWORD"}) =>
              admins' = admins /\ sessions' = sessions]_vars

\* C19: with a non-empty current_password and new_password, change_password
\* answers INVALID_PASSWORD when current_password does not verify, otherwise
\* WEAK_PASSWORD when the new password has fewer than 6 characters (5 fails,
\* 6 succeeds); an empty one answers MISSING_FIELD first.  In each of these
\* failures the password hash is unchanged and no session that has not
\* expired is deleted: only the sweep's expired rows go.
C19_ChangePasswordFailures ==
    /\ [](\A h \in Headers, cur \in Passwords, new \in Passwords :
            AuthResult(h).code = "OK" =>
                LET a == AuthResult(h).admin_id
                    code == change_password_code(h, cur, new)
                IN  IF cur = EmptyStr \/ new = EmptyStr THEN code = "MISSING_FIELD"
                    ELSE IF ~Matches(a, cur) THEN code = "INVALID_PASSWORD"
                    ELSE IF Len(new) <= 5 THEN code = "WEAK_PASSWORD"
                    ELSE Len(new) >= 6 /\ code = "OK")
    /\ [][ChangeRefused({"MISSING_FIELD", "INVALID_PASSWORD", "WEAK_PASSWORD"}) =>
              /\ admins' = admins
              /\ sessions' = {s \in sessions : s.expires_at >= now}]_vars

\* a new password of 5 characters was refused for an admin holding a live
\* token, at a time when an earlier token has expired and no expired row is
\* stored; the same request with 6 characters would be accepted
C19_Witness ==
    /\ resp.op = "change_password" /\ resp.code = "WEAK_PASSWORD"
    /\ \E s \in sessions : Admits(s.token)
    /\ \A s \in sessions : s.expires_at >= now
    /\ \E t \in issued : t.exp < now
    /\ \E h \in Headers :
          /\ AuthResult(h).code = "OK"
          /\ change_password_code(h, DefaultPassword, <<"n", "e", "w", "p", "w">>) = "WEAK_PASSWORD"
          /\ change_password_code(h, DefaultPassword, <<"n", "e", "w", "p", "w", "d">>) = "OK"

\* C20: verify_password is true exactly when the stored hash has the two
\* parts salt and digest and the digest is that of the password followed by
\* the salt: true for the password last given to hash_password, false for
\* every other password, and false, not an exception, for a stored hash that
\* does not split into exactly two parts.
C20_VerifyPassword ==
    \A a \in DOMAIN admins :
        LET stored == admins[a].password_hash
        IN  /\ \A q \in TriedPasswords :
                  /\ verify_password_outcome(admins[a], q) \in {"True", "False"}
                  /\ verify_password(admins[a], q) <=>
                        /\ Len(stored) = 2
                        /\ stored[2] = <<"sha256">> \o q \o stored[1]
                  /\ Len(stored) # 2 => verify_password_outcome(admins[a], q) = "False"
            /\ resp.op = "hash_password" =>
                  \A q \in TriedPasswords : verify_password(admins[a], q) <=> q = resp.password
            /\ resp.op = "verify_password" =>
                  resp.code = IF Matches(a, resp.password) THEN "True" ELSE "False"

\* a password that is not the one stored was refused after a password had
\* been hashed and stored
C20_Witness ==
    /\ resp.op = "verify_password" /\ resp.code = "False"
    /\ \E a \in DOMAIN admins, q \in TriedPasswords, salt \in Salts :
          /\ q # resp.password /\ q # DefaultPassword /\ salt # BootSalt
          /\ admins[a].password_hash = hash_password(q, salt)
          /\ verify_password(admins[a], q)

----------------------------------------------------------------------------
(* Properties of the identity deriver                                      *)

\* C21: two derivations give the same identifier exactly when their ip,
\* user agent and additional data are the same, also for values that contain
\* ':' and for empty against absent additional data.
C21_IdentifierInjective ==
    \A w1 \in Workers, w2 \in Workers :
        (vreq[w1].kind = "derive" /\ vreq[w2].kind = "derive") =>
            (vreq[w1].user_identifier = vreq[w2].user_identifier
                <=> /\ vreq[w1].ip = vreq[w2].ip
                    /\ vreq[w1].ua = vreq[w2].ua
                    /\ vreq[w1].additional_data = vreq[w2].additional_data)

----------------------------------------------------------------------------
(* Further properties of the vote ledger                                   *)

\* the values a stored day and a stored meal may take, in lower case
Weekdays ==
    {<<"m", "o", "n", "d", "a", "y">>,
     <<"t", "u", "e", "s", "d", "a", "y">>,
     <<"w", "e", "d", "n", "e", "s", "d", "a", "y">>,
     <<"t", "h", "u", "r", "s", "d", "a", "y">>,
     <<"f", "r", "i", "d", "a", "y">>,
     <<"s", "a", "t", "u", "r", "d", "a", "y">>,
     <<"s", "u", "n", "d", "a", "y">>}
MealTypes ==
    {<<"b", "r", "e", "a", "k", "f", "a", "s", "t">>,
     <<"l", "u", "n", "c", "h">>,
     <<"s", "n", "a", "c", "k", "s">>,
     <<"d", "i", "n", "n", "e", "r">>}

\* C22: every stored vote has its day among the seven weekdays and its meal
\* among breakfast, lunch, snacks and dinner.
C22_DayAndMealEnumerated ==
    \A v \in votes : v.day \in Weekdays /\ v.meal \in MealTypes

\* C23: a stored vote is never modified and never deleted: every step of
\* vote submission, check-vote, login, logout, change_password, the sweep,
\* admin reads and exports keeps every stored vote as it is.
C23_VotesOnlyGrow ==
    [][\A v \in votes : v \in votes']_vars

\* a vote was stored and found by check-vote, and since the clock last moved
\* the admin has changed the password, losing the sessions
C23_Witness ==
    /\ Cardinality(votes) = 1
    /\ vreq["w1"].kind = "check" /\ vreq["w1"].has_voted
    /\ resp.op = "change_password" /\ resp.code = "OK"
    /\ now > 0 /\ issued # {} /\ sessions = {}

----------------------------------------------------------------------------
(* Properties of the menu PDF and the complaints                           *)

\* C24: an upload stores a MenuPDF row only when the request carries a token
\* that require_admin_auth admits; without a token or with an invalid one the
\* request is refused and stores no row.
C24_UploadNeedsToken ==
    [][(resp' # resp /\ resp'.op = "upload_pdf") =>
          (AuthResult(resp'.auth_header).code # "OK" =>
              /\ menu_pdfs' = menu_pdfs
              /\ resp'.code # "OK")]_vars

\* C25: for an authenticated admin and a stored complaint,
\* update_complaint_status with a status that is pending, in_progress,
\* resolved or closed in any letter case succeeds and stores the lower-cased
\* status for that complaint; another status is refused and the complaint
\* stays as it is.
C25_UpdateComplaintStatus ==
    [][(/\ resp' # resp
        /\ resp'.op = "update_complaint_status"
        /\ resp'.code \notin {"UNAUTHORIZED", "INVALID_TOKEN", "ADMIN_NOT_FOUND"}
        /\ resp'.complaint_id \in DOMAIN complaints) =>
          IF Lower(resp'.status) \in valid_statuses
          THEN /\ resp'.code = "OK"
               /\ complaints' = [complaints EXCEPT
                      ![resp'.complaint_id].status = Lower(resp'.status)]
          ELSE /\ resp'.code # "OK"
               /\ complaints' = complaints]_vars

\* C26: login checks the credentials before the active flag.  A login whose
\* password does not verify, for an unknown username or for a known one, active
\* or not, is answered INVALID_CREDENTIALS and changes nothing; the answer
\* ACCOUNT_DISABLED is given only when the password verifies for an inactive
\* admin.
C26_CredentialsBeforeActiveFlag ==
    [][\A username \in Usernames, password \in Passwords, ip \in AdminIps :
          admin_login(username, password, ip) =>
             LET found == {a \in DOMAIN admins : admins[a].username = username}
                 verifies == \E a \in found : verify_password(admins[a], password)
             IN  /\ ~verifies =>
                       /\ resp' = Response("login", "INVALID_CREDENTIALS")
                       /\ UNCHANGED <<admins, sessions, issued>>
                 /\ resp'.code = "ACCOUNT_DISABLED" =>
                       /\ verifies
                       /\ \E a \in found : ~admins[a].is_active]_vars

\* a login with the right password was refused for an admin that is inactive
C26_Witness ==
    /\ resp = Response("login", "ACCOUNT_DISABLED")
    /\ admins # <<>>
    /\ ~admins[1].is_active
    /\ verify_password(admins[1], DefaultPassword)

\* C27: change_password revokes only the sessions that existed before the
\* password was changed: a session that a login inserts after the commit of
\* the new hash and before the bulk delete of that change_password is kept by
\* the bulk delete.
C27_RevokesOnlyEarlierSessions ==
    [][\A s \in sessions' \ sessions :
          s.admin_id \in cp => s \in delete_sessions_of(s.admin_id, sessions')]_vars

\* C28: the expiry carried by the token of a stored session is never later
\* than the expires_at of its row, so every row that the sweep would delete
\* now belongs to a token that validation already refuses.
C28_TokenExpiresNoLaterThanRow ==
    /\ \A s \in sessions : s.token.exp <= s.expires_at
    /\ \A s \in sessions \ cleanup_expired_sessions(sessions) :
          verify_jwt_token(s.token) = 0

\* a row is stored that the next sweep deletes, and a row whose token expires
\* strictly before the row does
C28_Witness ==
    /\ \E s \in sessions : s \notin cleanup_expired_sessions(sessions)
    /\ \E s \in sessions : s.token.exp < s.expires_at

\* C29: verify-token and the require_admin_auth guard agree: for every
\* Authorization header, in every state, verify-token answers valid = true
\* exactly when the guard admits a request with that header; a verify-token
\* request changes no stored row.
C29_VerifyTokenAgreesWithGuard ==
    /\ [](\A h \in Headers \cup {<<"Bearer">>, <<"Bearer", NoToken>>} :
            verify_token_result(h).valid <=> AuthResult(h).code = "OK")
    /\ [][(resp' # resp /\ resp'.op = "verify_token") =>
             /\ UNCHANGED <<admins, sessions, issued, cp>>
             /\ UNCHANGED voteVars
             /\ UNCHANGED docVars]_vars

\* verify-token has answered valid = false while a token is held that has not
\* expired and whose admin is inactive or deleted
C29_Witness ==
    /\ resp.op = "verify_token"
    /\ ~resp.valid
    /\ resp.success
    /\ \E t \in issued :
          /\ verify_jwt_token(t) # 0
          /\ AuthResult(<<"Bearer", t>>).code = "ADMIN_NOT_FOUND"
          /\ ~verify_token_result(<<"Bearer", t>>).valid

\* the session rows that go in this step
Deleted == sessions \ sessions'

\* every admin other than a is the same row after the step
OthersUnchanged(a) ==
    /\ DOMAIN admins' = DOMAIN admins
    /\ \A b \in DOMAIN admins : b # a => admins'[b] = admins[b]

\* C30 as stated: logout deletes at most the one session whose token is the
\* presented one, change_password deletes only sessions of the admin whose
\* password changed, and both leave every other session, every vote and
\* every other admin unchanged.
C30_AsStated ==
    [][/\ \A t \in issued :
            (Admits(t) /\ admin_logout(<<"Bearer", t>>)) =>
               /\ \A s \in Deleted : s.token = t
               /\ Cardinality(Deleted) <= 1
               /\ admins' = admins
               /\ votes' = votes
       /\ \A a \in cp' \ cp :
               /\ \A s \in Deleted : s.admin_id = a
               /\ OthersUnchanged(a)
               /\ votes' = votes
       /\ \A a \in cp \ cp' :
               /\ \A s \in Deleted : s.admin_id = a
               /\ admins' = admins
               /\ votes' = votes]_vars

\* C30: apart from the sweep of expired sessions that precedes every
\* protected call, revocation is targeted: of the sessions that have not
\* expired, logout deletes at most the one whose token is the presented one
\* and change_password deletes only sessions of the admin whose password
\* changed (none when it is refused); every vote and every other admin is
\* unchanged.
C30_RevocationIsTargeted ==
    [][/\ \A t \in issued :
            admin_logout(<<"Bearer", t>>) =>
               /\ \A s \in Deleted : s.token = t \/ s.expires_at < now
               /\ Cardinality({s \in Deleted : s.expires_at >= now}) <= 1
               /\ admins' = admins
               /\ votes' = votes
       /\ \A a \in cp' \ cp :
               /\ \A s \in Deleted : s.expires_at < now
               /\ OthersUnchanged(a)
               /\ votes' = votes
       /\ \A a \in cp \ cp' :
               /\ \A s \in Deleted : s.admin_id = a
               /\ admins' = admins
               /\ votes' = votes
       /\ (resp'.op = "change_password" /\ resp'.code # "OK" /\ cp' = cp) =>
               /\ \A s \in Deleted : s.expires_at < now
               /\ admins' = admins
               /\ votes' = votes]_vars

\* a logout has deleted the row of a token that is still admitted, while a
\* session of the other admin and the vote are stored
C30_Witness ==
    /\ resp = Response("logout", "OK")
    /\ \E t \in issued :
          /\ t.admin_id = 1
          /\ Admits(t)
          /\ \A s \in sessions : s.token # t
    /\ \E s \in sessions : s.admin_id = 2
    /\ votes = {StoredVote}

====
